---- MODULE Spec2Model ----
(***************************************************************************)
(* State-machine model of the superstore insight engine:                   *)
(*   src/05_scrape_demo.py  the three site extractors, the orchestrator    *)
(*                          main() and the JSON result writer;             *)
(*   src/api_main.py        the HTTP handlers that read the artifacts;     *)
(*   src/01, 02, 06         the scripts that create the other artifacts    *)
(*                          (only the existence of their output matters).  *)
(*                                                                         *)
(* Python strings are sequences of symbols, so that _clean and the         *)
(* truthiness tests act on content.  Every Python value carries a tag t.   *)
(***************************************************************************)
EXTENDS Integers, Sequences, FiniteSets, TLC

\* ------------------------------------------------------------------ bounds
\* Largest number of cards / products / JSON-LD nodes of a fetched document.
MaxCards == 12

\* ------------------------------------------------- Python values and strings
\* "\xa0", the non-breaking space.
NBSP == "nbsp"
\* The four characters backslash x a 0 (the literal "\\xa0" of _clean).
LitNBSP == "bs_xa0"
\* The mis-decoded character removed by _clean.
ACirc == "A_circ"

None == [t |-> "none"]
Str(s) == [t |-> "str", s |-> s]
Num(n) == [t |-> "num", n |-> n]
EmptyStr == Str(<<>>)

\* An URL string, kept structured: "" is Url("", <<>>, <<>>); a URL with a
\* host is absolute; a relative one is rooted ("/p") or not ("p"); the query
\* is a string (a sequence of symbols) as well.
Url(h, p, q) == [t |-> "url", host |-> h, rooted |-> (h # ""), path |-> p, query |-> q]
RootedUrl(p) == [t |-> "url", host |-> "", rooted |-> TRUE, path |-> p, query |-> <<>>]
EmptyUrl == Url("", <<>>, <<>>)
IsAbsolute(u) == u.t = "url" /\ u.host # ""

\* bool(v) as Python evaluates it in `if v` and `a or b`.
Truthy(v) ==
  CASE v.t = "none" -> FALSE
    [] v.t = "str"  -> v.s # <<>>
    [] v.t = "num"  -> v.n # 0
    [] v.t = "url"  -> v # EmptyUrl
    [] OTHER        -> TRUE

\* `a or b or ... or z`: the first truthy operand, else the last one.
RECURSIVE PyOr(_)
PyOr(vs) ==
  IF Len(vs) = 1 THEN vs[1]
  ELSE IF Truthy(Head(vs)) THEN Head(vs) ELSE PyOr(Tail(vs))

\* str.replace(old, new) for a one-symbol old and a sequence new.
RECURSIVE Replace(_, _, _)
Replace(s, old, new) ==
  IF s = <<>> THEN <<>>
  ELSE (IF Head(s) = old THEN new ELSE <<Head(s)>>) \o Replace(Tail(s), old, new)

IsSpace(c) == c \in {" ", NBSP}

RECURSIVE LStrip(_)
LStrip(s) == IF s # <<>> /\ IsSpace(Head(s)) THEN LStrip(Tail(s)) ELSE s

RECURSIVE RStrip(_)
RStrip(s) ==
  IF s # <<>> /\ IsSpace(s[Len(s)]) THEN RStrip(SubSeq(s, 1, Len(s) - 1)) ELSE s

\* str.strip()
Strip(s) == RStrip(LStrip(s))

\* _clean(s): a non-string is returned as it is.
Clean(v) ==
  IF v.t # "str" THEN v
  ELSE Str(Strip(Replace(Replace(Replace(v.s, LitNBSP, <<" ">>), NBSP, <<" ">>), ACirc, <<>>)))

\* str(price) if price is not None else ""   (prices are strings or None here)
PriceText(price) == IF price.t # "none" THEN price ELSE EmptyStr

Min(a, b) == IF a < b THEN a ELSE b
Front(s) == SubSeq(s, 1, Len(s) - 1)

\* urllib.parse.urljoin(base, url) for http(s) URLs without dot segments.
UrlJoin(base, url) ==
  IF ~Truthy(url) THEN base
  ELSE IF url.host # "" THEN url
  ELSE IF url.path = <<>>
    THEN [base EXCEPT !.query = IF url.query # <<>> THEN url.query ELSE base.query]
  ELSE IF url.rooted THEN Url(base.host, url.path, url.query)
  ELSE Url(base.host, Front(base.path) \o url.path, url.query)

\* ------------------------------------------------------------ configuration
PreviewCap == 8
TIME_URL == Url("shop.timecenter.jo", <<"collections", "men-watches">>, <<>>)
CITY_URL == Url("citycenter.jo", <<"pc-and-laptops", "pc-and-laptops-laptops">>, <<>>)
READERS_URL == Url("www.readers.jo", <<"">>, <<>>)
READERS_QUERY == <<"book">>
OUT_JSON == "artifacts/reports/scraped_excerpt.json"

\* Outcome of a call that either returns a value or raises.
Ok(v) == [ok |-> TRUE, value |-> v]
Raise(etype, msg) == [ok |-> FALSE, etype |-> etype, msg |-> msg]

Item(title, price, href) == [title |-> title, price |-> price, href |-> href]

\* items[:8]
Preview(items) == SubSeq(items, 1, Min(PreviewCap, Len(items)))

\* ------------------------------------------------------------- documents
\* A product card of a fetched HTML page, as the selector chains see it:
\* title, price and href hold the result of each selector of the chain, in the
\* chain's order (.text() is a string, .attr() a string or None).
Card(titles, prices, hrefs) == [title |-> titles, price |-> prices, href |-> hrefs]

\* ---------- City Center ----------
\* The loop over cards of parse_citycenter_laptops (lines 38-52).
RECURSIVE CityLoop(_, _)
CityLoop(cards, items) ==
  IF cards = <<>> \/ Len(items) >= PreviewCap THEN items
  ELSE LET card  == Head(cards)
           title == PyOr(card.title)
           price == PyOr(card.price)
           href  == PyOr(card.href \o <<EmptyUrl>>)
       IN CityLoop(Tail(cards),
                   IF Truthy(title)
                     THEN Append(items, Item(Clean(title), Clean(price), UrlJoin(CITY_URL, href)))
                     ELSE items)

\* Mutant of ParseCity: items_count counts the cards of the page.
ParseCityCountsCards(doc) ==
  LET items == CityLoop(doc, <<>>)
  IN IF items = <<>>
       THEN Raise("ValueError", "No product cards parsed on City Center page.")
       ELSE Ok([source |-> CITY_URL, items_count |-> Len(doc), items_preview |-> Preview(items)])

\* Mutant of ParseCity: the test `if not items` is left out.
ParseCityUnchecked(doc) ==
  LET items == CityLoop(doc, <<>>)
  IN Ok([source |-> CITY_URL, items_count |-> Len(items), items_preview |-> Preview(items)])

\* parse_citycenter_laptops once the page is fetched: doc is the card sequence.
ParseCity(doc) ==
  LET items == CityLoop(doc, <<>>)
  IN IF items = <<>>
       THEN Raise("ValueError", "No product cards parsed on City Center page.")
       ELSE Ok([source |-> CITY_URL, items_count |-> Len(items),
                items_preview |-> Preview(items)])

\* ---------- Time Center ----------
\* prod_json_url (lines 60-61) with params={"limit": 12}.
ProdJsonUrl ==
  IF Len(TIME_URL.path) >= 2 /\ TIME_URL.path[1] = "collections"
    THEN Url(TIME_URL.host, TIME_URL.path \o <<"products.json">>, <<"limit=12">>)
    ELSE Url("shop.timecenter.jo", <<"products.json">>, <<"limit=12">>)

\* Source recorded by the JSON tier: the URL without the request parameters.
ProdJsonSource == [ProdJsonUrl EXCEPT !.query = <<>>]

\* The loop over products[:8] (lines 66-73); a product that is no dict makes
\* p.get raise, which ends the tier.
RECURSIVE TimeJsonLoop(_, _)
TimeJsonLoop(products, items) ==
  IF products = <<>> THEN Ok(items)
  ELSE LET p == Head(products)
       IN IF ~p.isdict THEN Raise("AttributeError", "object has no attribute 'get'")
          ELSE LET price == IF p.variants # <<>> THEN p.variants[1].price ELSE None
                   href  == IF Truthy(p.handle)
                              THEN Url("shop.timecenter.jo", <<"products">> \o p.handle.s, <<>>)
                              ELSE TIME_URL
               IN TimeJsonLoop(Tail(products),
                               IF Truthy(p.title)
                                 THEN Append(items, Item(Clean(p.title), Clean(PriceText(price)), href))
                                 ELSE items)

\* Lines 63-73 on a fetched body: r.json() raises on a malformed body, data.get
\* raises on a body that is a JSON list.
TimeJsonItems(body) ==
  CASE body.kind = "malformed" -> Raise("JSONDecodeError", "Expecting value")
    [] body.kind = "list"      -> Raise("AttributeError", "'list' object has no attribute 'get'")
    [] OTHER -> TimeJsonLoop(SubSeq(body.products, 1, Min(PreviewCap, Len(body.products))), <<>>)

\* The loop over cards of the HTML tier (lines 83-96).
RECURSIVE TimeHtmlLoop(_, _)
TimeHtmlLoop(cards, items) ==
  IF cards = <<>> \/ Len(items) >= PreviewCap THEN items
  ELSE LET card  == Head(cards)
           title == PyOr(card.title)
           price == PyOr(card.price)
           href  == PyOr(card.href \o <<EmptyUrl>>)
       IN TimeHtmlLoop(Tail(cards),
                       IF Truthy(title)
                         THEN Append(items, Item(Clean(title), Clean(price), UrlJoin(TIME_URL, href)))
                         ELSE items)

\* The HTML tier once the page is fetched (lines 80-99).
ParseTimeHtml(doc) ==
  LET items == TimeHtmlLoop(doc, <<>>)
  IN IF items = <<>>
       THEN Raise("ValueError", "No product items from Shopify JSON nor HTML on Time Center.")
       ELSE Ok([source |-> TIME_URL, items_count |-> Len(items),
                items_preview |-> Preview(items)])

\* ---------- Readers ----------
\* A JSON-LD node: a dict with the keys the walk reads (an absent key is None,
\* an absent itemListElement the empty list); any other JSON value has another tag.
Node(type, name, offers, url, item, elems) ==
  [t |-> "dict", type |-> type, name |-> name, offers |-> offers, url |-> url,
   item |-> item, elems |-> elems]
\* offers as a dict: its "price" and the "price" of its priceSpecification.
Offers(price, spec) == [t |-> "dict", price |-> price, spec |-> spec]
EmptyDict == [t |-> "dict", price |-> None, spec |-> None]

\* push_product(obj) (lines 112-121).
PushProduct(items, obj, base) ==
  IF obj.t # "dict" THEN items
  ELSE LET title  == obj.name
           offers == IF Truthy(obj.offers) THEN obj.offers ELSE EmptyDict
           price  == IF offers.t = "dict" THEN PyOr(<<offers.price, offers.spec>>) ELSE None
           url    == PyOr(<<obj.url, EmptyUrl>>)
       IN IF Truthy(title)
            THEN Append(items, Item(Clean(title), Clean(PriceText(price)), UrlJoin(base, url)))
            ELSE items

\* for li in entry.get("itemListElement", []) (lines 129-131, 136-138).
RECURSIVE PushList(_, _, _)
PushList(items, elems, base) ==
  IF elems = <<>> THEN items
  ELSE LET li == Head(elems)
       IN PushList(IF li.t = "dict"
                     THEN PushProduct(items, IF Truthy(li.item) THEN li.item ELSE li, base)
                     ELSE items,
                   Tail(elems), base)

\* One Product / ItemList node (lines 126-131, 133-138).
PushEntry(items, entry, base) ==
  IF entry.t # "dict" THEN items
  ELSE IF entry.type = "Product" THEN PushProduct(items, entry, base)
  ELSE IF entry.type = "ItemList" THEN PushList(items, entry.elems, base)
  ELSE items

RECURSIVE PushEntries(_, _, _)
PushEntries(items, entries, base) ==
  IF entries = <<>> THEN items
  ELSE PushEntries(PushEntry(items, Head(entries), base), Tail(entries), base)

\* Mutant of PushBlock: a block that does not parse empties the list.
PushBlockReset(items, block, base) ==
  CASE block.kind = "malformed" -> <<>>
    [] block.kind = "list"      -> PushEntries(items, block.data, base)
    [] block.kind = "dict"      -> PushEntry(items, block.data, base)
    [] OTHER                    -> items

\* One script block (lines 107-138): a block that does not parse is skipped.
PushBlock(items, block, base) ==
  CASE block.kind = "malformed" -> items
    [] block.kind = "list"      -> PushEntries(items, block.data, base)
    [] block.kind = "dict"      -> PushEntry(items, block.data, base)
    [] OTHER                    -> items

\* for script in doc('script[type="application/ld+json"]') (line 106).
RECURSIVE PushBlocks(_, _, _)
PushBlocks(items, blocks, base) ==
  IF blocks = <<>> THEN items
  ELSE PushBlocks(PushBlock(items, Head(blocks), base), Tail(blocks), base)

\* The loop over HTML cards (lines 143-159).
RECURSIVE ReadersHtmlLoop(_, _, _)
ReadersHtmlLoop(cards, items, base) ==
  IF cards = <<>> \/ Len(items) >= PreviewCap THEN items
  ELSE LET card  == Head(cards)
           title == PyOr(card.title)
           price == PyOr(card.price)
           href  == PyOr(card.href \o <<EmptyUrl>>)
       IN ReadersHtmlLoop(Tail(cards),
                          IF Truthy(title)
                            THEN Append(items, Item(Clean(title), Clean(price), UrlJoin(base, href)))
                            ELSE items,
                          base)

\* Mutant of ReadersExtractFromDoc: the cards are read before the JSON-LD.
ReadersExtractCardsFirst(doc, base) ==
  PushBlocks(ReadersHtmlLoop(doc.cards, <<>>, base), doc.blocks, base)

\* _readers_extract_from_doc(doc, base): doc is [blocks, cards].
ReadersExtractFromDoc(doc, base) ==
  LET ld == PushBlocks(<<>>, doc.blocks, base)
  IN IF Len(ld) < PreviewCap THEN ReadersHtmlLoop(doc.cards, ld, base) ELSE ld

\* urllib.parse.quote_plus on the symbols of the model.
RECURSIVE QuotePlus(_)
QuotePlus(s) ==
  IF s = <<>> THEN <<>>
  ELSE (CASE Head(s) = " "  -> <<"+">>
          [] Head(s) = NBSP -> <<"%C2%A0">>
          [] Head(s) = "&"  -> <<"%26">>
          [] OTHER          -> <<Head(s)>>) \o QuotePlus(Tail(s))

\* search_url (line 171).
SearchUrl ==
  Url("www.readers.jo", <<"index.php">>,
      <<"route=product/search&search=">> \o QuotePlus(READERS_QUERY))

\* parse_readers after the primary page is fetched (lines 166-170, 180):
\* a result, or "fallback" when the search page is to be fetched.
ParseReadersPrimary(doc) ==
  LET items == ReadersExtractFromDoc(doc, READERS_URL)
  IN IF items = <<>> THEN [ok |-> FALSE, fallback |-> TRUE]
     ELSE Ok([source |-> READERS_URL, items_count |-> Len(items),
              items_preview |-> Preview(items)])

\* Mutant of ParseReadersSearch: the result of the search page has no note.
ParseReadersSearchNoNote(doc) ==
  LET items == ReadersExtractFromDoc(doc, SearchUrl)
  IN IF items # <<>>
       THEN Ok([source |-> SearchUrl, items_count |-> Len(items),
                items_preview |-> Preview(items)])
       ELSE Raise("ValueError",
                  "No product cards or JSON-LD products found on Readers (homepage and search).")

\* parse_readers after the search page is fetched (lines 173-178).
ParseReadersSearch(doc) ==
  LET items == ReadersExtractFromDoc(doc, SearchUrl)
  IN IF items # <<>>
       THEN Ok([source |-> SearchUrl, items_count |-> Len(items),
                items_preview |-> Preview(items),
                note |-> Str(<<"Search fallback for '">> \o READERS_QUERY \o <<"'">>)])
       ELSE Raise("ValueError",
                  "No product cards or JSON-LD products found on Readers (homepage and search).")

\* ------------------------------------------------- documents the sites serve
\* The n first cards of a page that repeats the cards of pool.
Cyc(pool, n) == [i \in 1..n |-> pool[((i - 1) % Len(pool)) + 1]]
\* Sizes of the served listings: none, a few, more than the preview cap holds.
CardCounts == {0, 3, MaxCards}

NoText5 == <<EmptyStr, EmptyStr, EmptyStr, EmptyStr, EmptyStr>>
NoTitle5 == <<EmptyStr, EmptyStr, EmptyStr, EmptyStr, None>>

\* City Center cards: a titled card with a relative link, a banner without
\* title, a card titled by its link's title attribute, a card whose title
\* element holds a single &nbsp;.
CityPool ==
  << Card(<<Str(<<"Laptop", NBSP, "A">>), EmptyStr, EmptyStr, EmptyStr, None>>,
          <<EmptyStr, Str(<<"JD", LitNBSP, "500">>), EmptyStr, EmptyStr, EmptyStr>>,
          <<Url("", <<"laptop-a">>, <<>>), None, Url("", <<"laptop-a">>, <<>>)>>),
     Card(NoTitle5, NoText5,
          <<None, None, Url("cdn.citycenter.jo", <<"banner">>, <<>>)>>),
     Card(<<EmptyStr, EmptyStr, EmptyStr, EmptyStr, Str(<<" ", "Laptop", ACirc, "B", " ">>)>>,
          <<Str(<<"JD", " ", "450">>), Str(<<"JD", " ", "600">>), EmptyStr, EmptyStr, EmptyStr>>,
          <<None, None, RootedUrl(<<"laptop-b">>)>>),
     Card(<<Str(<<NBSP>>), EmptyStr, EmptyStr, EmptyStr, None>>, NoText5,
          <<None, None, None>>) >>
CityDocs == {Cyc(CityPool, n) : n \in CardCounts}

\* Time Center products of /products.json.
TimeProducts ==
  << [isdict |-> TRUE, title |-> Str(<<"Watch", " ", "A">>), handle |-> Str(<<"watch-a">>),
      variants |-> <<[price |-> Str(<<"120.00">>)]>>],
     [isdict |-> TRUE, title |-> None, handle |-> Str(<<"gift-card">>), variants |-> <<>>],
     [isdict |-> TRUE, title |-> Str(<<" ">>), handle |-> None,
      variants |-> <<[price |-> None]>>] >>
NotADict == [isdict |-> FALSE, title |-> None, handle |-> None, variants |-> <<>>]
TimeJsonBodies ==
  {[kind |-> "dict", products |-> Cyc(TimeProducts, n)] : n \in CardCounts}
    \cup {[kind |-> "dict", products |-> <<TimeProducts[1], NotADict>>],
          [kind |-> "malformed", products |-> <<>>],
          [kind |-> "list", products |-> <<TimeProducts[1]>>]}

\* Time Center cards of the collection page.
TimePool ==
  << Card(<<Str(<<"Watch", " ", "A">>), Str(<<"Watch">>), EmptyStr, EmptyStr, EmptyStr>>,
          <<Str(<<"120.00", NBSP, "JOD">>), EmptyStr, EmptyStr, EmptyStr, EmptyStr>>,
          <<RootedUrl(<<"products", "watch-a">>)>>),
     Card(<<None, EmptyStr, EmptyStr, EmptyStr, EmptyStr>>, NoText5, <<None>>),
     Card(<<None, EmptyStr, Str(<<ACirc, "Watch", " ", "B">>), EmptyStr, EmptyStr>>,
          <<EmptyStr, EmptyStr, EmptyStr, Str(<<"95.00">>), Str(<<"95.00", " ", "JOD">>)>>,
          <<Url("shop.timecenter.jo", <<"products", "watch-b">>, <<>>)>>) >>
TimeHtmlDocs == {Cyc(TimePool, n) : n \in {0, 3}}

\* Readers JSON-LD nodes and cards.
Product(name, price, url) == Node("Product", name, Offers(price, None), url, None, <<>>)
ListItem(node) == Node("ListItem", None, None, None, node, <<>>)
ItemList(elems) == Node("ItemList", None, None, None, None, elems)
ReadersNodes ==
  << ListItem(Product(Str(<<"Book", " ", "A">>), Str(<<"7.50">>), RootedUrl(<<"book-a">>))),
     Node("ListItem", Str(<<"Book", NBSP, "B">>), Offers(None, Str(<<"9.00">>)),
          Url("www.readers.jo", <<"book-b">>, <<>>), None, <<>>),
     Node("ListItem", None, None, None, None, <<>>),
     ListItem(Product(Str(<<ACirc>>), None, None)) >>
ReadersPool ==
  << Card(<<Str(<<"Book", " ", "C">>), Str(<<"Book", " ", "C">>), EmptyStr, EmptyStr, None>>,
          <<Str(<<"5.00">>), EmptyStr, Str(<<"5.00", " ", "6.00">>), EmptyStr>>,
          <<Url("", <<"book-c">>, <<>>), Url("", <<"book-c">>, <<>>), Url("", <<"book-c">>, <<>>)>>),
     Card(NoTitle5, <<EmptyStr, EmptyStr, EmptyStr, EmptyStr>>, <<None, None, None>>),
     Card(<<EmptyStr, EmptyStr, EmptyStr, EmptyStr, Str(<<"Book", " ", "D">>)>>,
          <<EmptyStr, EmptyStr, EmptyStr, EmptyStr>>,
          <<None, None, RootedUrl(<<"book-d">>)>>) >>
Malformed == [kind |-> "malformed", data |-> <<>>]
EmptyPage == [blocks |-> <<>>, cards |-> <<>>]
ReadersPrimaryDocs ==
  { EmptyPage,
    [blocks |-> <<Malformed, [kind |-> "dict", data |-> ItemList(Cyc(ReadersNodes, MaxCards))]>>,
     cards  |-> Cyc(ReadersPool, 3)] }
ReadersSearchDocs ==
  { EmptyPage,
    [blocks |-> <<[kind |-> "list", data |-> <<ReadersNodes[1].item, None>>], Malformed>>,
     cards  |-> Cyc(ReadersPool, MaxCards)] }

\* ----------------------------------------------------------------- dicts
\* A Python dict with string keys: its entries in insertion order.
Keys(d) == {d[i].key : i \in 1..Len(d)}
Has(d, k) == k \in Keys(d)
Get(d, k) == d[CHOOSE i \in 1..Len(d) : d[i].key = k].val
\* d[k] = v
DictSet(d, k, v) ==
  IF Has(d, k) THEN [i \in 1..Len(d) |-> IF d[i].key = k THEN [key |-> k, val |-> v] ELSE d[i]]
  ELSE Append(d, [key |-> k, val |-> v])

\* ------------------------------------------------------------ JSON files
\* A file is absent or holds the tokens written so far.  json.dump writes the
\* opening brace, one member per key in insertion order, the closing brace.
Absent == [exists |-> FALSE, tokens |-> <<>>]
LBrace == [tok |-> "{", key |-> "", val |-> None]
RBrace == [tok |-> "}", key |-> "", val |-> None]
Member(k, v) == [tok |-> "member", key |-> k, val |-> v]

\* json.dump(out, f, ensure_ascii=False, indent=2): the token stream.
Dump(d) == <<LBrace>> \o [i \in 1..Len(d) |-> Member(d[i].key, d[i].val)] \o <<RBrace>>

\* A complete JSON object document.
IsDocument(tokens) ==
  /\ Len(tokens) >= 2
  /\ tokens[1].tok = "{"
  /\ tokens[Len(tokens)].tok = "}"
  /\ \A i \in 2..(Len(tokens) - 1) : tokens[i].tok = "member"

RECURSIVE LoadMembers(_, _)
LoadMembers(d, tokens) ==
  IF tokens = <<>> THEN d
  ELSE LoadMembers(DictSet(d, Head(tokens).key, Head(tokens).val), Tail(tokens))

\* json.load(f): the dict of the document, or JSONDecodeError.
JsonLoad(f) ==
  IF IsDocument(f.tokens)
    THEN Ok(LoadMembers(<<>>, SubSeq(f.tokens, 2, Len(f.tokens) - 1)))
    ELSE Raise("JSONDecodeError", "Expecting value")

\* Mutant of OpenW: the file is opened without being truncated (mode "a").
OpenAppend(f) == [exists |-> TRUE, tokens |-> f.tokens]

\* open(OUT_JSON, "w"): the file exists and is empty.
OpenW(f) == [exists |-> TRUE, tokens |-> <<>>]

\* ---------------------------------------------------------- orchestrator
\* steps (lines 186-190).
Steps == <<"citycenter", "timecenter", "readers">>
Sites == {Steps[i] : i \in 1..Len(Steps)}
ErrorKey(name) == name \o "_error"
TraceKey(name) == name \o "_trace"

\* The next iteration of `for name, fn in steps`, or the writer after the last.
NextSite(name) ==
  LET i == CHOOSE j \in 1..Len(Steps) : Steps[j] = name
  IN IF i < Len(Steps) THEN Steps[i + 1] ELSE "open"

\* f"{type(e).__name__}: {e}" and traceback.format_exc() (lines 199-200).
ErrorText(e) == Str(<<e.etype, ": ", e.msg>>)
TraceText(e) == Str(<<"Traceback (most recent call last):", e.etype, ": ", e.msg>>)

\* Mutant of Caught: only the extraction error is caught.
CaughtValueError(etype) == etype = "ValueError"

\* except Exception (line 197): every error of an extractor is an Exception.
Caught(etype) == TRUE

\* Mutant of StoreError: the trace is not stored.
StoreErrorOnly(d, name, e) == DictSet(d, ErrorKey(name), ErrorText(e))

\* Lines 199-200.
StoreError(d, name, e) ==
  DictSet(DictSet(d, ErrorKey(name), ErrorText(e)), TraceKey(name), TraceText(e))

\* Errors requests.get / raise_for_status raise (lines 28-29).
FetchErrors == {"ConnectionError", "HTTPError"}
\* What fetch(url) does: raises, or returns one of the documents.
FetchResults(docs) == {Raise(e, "fetch failed") : e \in FetchErrors} \cup {Ok(d) : d \in docs}

\* ------------------------------------------------ 06_parallel_reports.py
\* The clean CSV as pandas reads it: its columns and its rows.
Row(name, cat, sub, month, sales, profit) ==
  [product_name |-> name, category |-> cat, sub_category |-> sub, order_month |-> month,
   sales |-> sales, profit |-> profit]
AllColumns == {"product_name", "category", "sub_category", "order_month", "sales", "profit"}
Table(columns, rows) == [columns |-> columns, rows |-> rows]

\* df.groupby(col)[["sales","profit"]].sum(): one record per value of col.
RECURSIVE SumOf(_, _, _, _)
SumOf(rows, col, key, field) ==
  IF rows = <<>> THEN 0
  ELSE (IF Head(rows)[col] = key THEN Head(rows)[field] ELSE 0) + SumOf(Tail(rows), col, key, field)
GroupSums(rows, col) ==
  { [group |-> k, sales |-> SumOf(rows, col, k, "sales"), profit |-> SumOf(rows, col, k, "profit")]
      : k \in {rows[i][col] : i \in 1..Len(rows)} }

\* sort_values / sort_index: the elements of S in ascending order of rank.
RECURSIVE SortedBy(_, _)
SortedBy(S, rank) ==
  IF S = {} THEN <<>>
  ELSE LET m == CHOOSE x \in S : \A y \in S : rank[x] <= rank[y]
       IN <<m>> \o SortedBy(S \ {m}, rank)

\* n of report_top_losses as main passes it (lines 29, 42).
LossesN == 15

\* report_kpis (lines 10-13): categories by descending profit.
ReportKpis(c) ==
  IF ~({"category", "sales", "profit"} \subseteq c.columns) THEN Raise("KeyError", "category")
  ELSE LET g == GroupSums(c.rows, "category")
       IN Ok(<<[key |-> "kpis", val |-> SortedBy(g, [x \in g |-> 0 - x.profit])]>>)

\* report_top_losses (lines 15-18): the n rows of lowest profit.
ReportTopLosses(c, n) ==
  IF ~({"product_name", "category", "sub_category", "sales", "profit"} \subseteq c.columns)
    THEN Raise("KeyError", "profit")
  ELSE LET idx   == SortedBy(1..Len(c.rows), [i \in 1..Len(c.rows) |-> c.rows[i].profit])
           worst == SubSeq(idx, 1, Min(n, Len(idx)))
       IN Ok(<<[key |-> "top_losses",
                val |-> [j \in 1..Len(worst) |->
                           [product_name |-> c.rows[worst[j]].product_name,
                            category     |-> c.rows[worst[j]].category,
                            sub_category |-> c.rows[worst[j]].sub_category,
                            sales        |-> c.rows[worst[j]].sales,
                            profit       |-> c.rows[worst[j]].profit]]]>>)

\* report_monthly (lines 20-23): months in ascending order.
ReportMonthly(c) ==
  IF ~({"order_month", "sales", "profit"} \subseteq c.columns) THEN Raise("KeyError", "order_month")
  ELSE LET g == GroupSums(c.rows, "order_month")
       IN Ok(<<[key |-> "monthly", val |-> SortedBy(g, [x \in g |-> x.group])]>>)

\* The tasks in the order run_parallel submits and collects them.
Tasks == <<"report_kpis", "report_top_losses", "report_monthly">>
TaskSet == {Tasks[i] : i \in 1..Len(Tasks)}
ReportOf(fn, c) ==
  CASE fn = "report_kpis"       -> ReportKpis(c)
    [] fn = "report_top_losses" -> ReportTopLosses(c, LossesN)
    [] fn = "report_monthly"    -> ReportMonthly(c)

\* out.update(d)
RECURSIVE DictUpdate(_, _)
DictUpdate(d, e) ==
  IF e = <<>> THEN d ELSE DictUpdate(DictSet(d, Head(e).key, Head(e).val), Tail(e))

\* run_sequential (lines 38-44) from its k-th report on: the first report that
\* raises ends it.
RECURSIVE SequentialFrom(_, _, _)
SequentialFrom(c, k, d) ==
  IF k > Len(Tasks) THEN Ok(d)
  ELSE LET r == ReportOf(Tasks[k], c)
       IN IF r.ok THEN SequentialFrom(c, k + 1, DictUpdate(d, r.value)) ELSE r
RunSequential(c) == SequentialFrom(c, 1, <<>>)

\* Clean CSVs: three orders, a single order, no order, a file without order_month.
CsvPool ==
  << Table(AllColumns,
           << Row("Chair", "Furniture", "Chairs", 2, 100, 0 - 30),
              Row("Phone", "Technology", "Phones", 1, 400, 120),
              Row("Table", "Furniture", "Tables", 1, 250, 0 - 80) >>),
     Table(AllColumns, << Row("Paper", "Office Supplies", "Paper", 3, 20, 5) >>),
     Table(AllColumns, <<>>),
     Table(AllColumns \ {"order_month"},
           << Row("Phone", "Technology", "Phones", 1, 400, 120) >>) >>
\* all_reports.json as an earlier run left it.
PriorReports == [exists |-> TRUE, tokens |-> Dump(RunSequential(CsvPool[2]).value)]

\* A task of the pool; nth tells a finished task which one it was to finish.
NotSubmitted == [state |-> "none", result |-> Ok(<<>>), nth |-> 0]
Running == [state |-> "running", result |-> Ok(<<>>), nth |-> 0]
Returned(r, n) == [state |-> "done", result |-> r, nth |-> n]
Terminated == [state |-> "terminated", result |-> Ok(<<>>), nth |-> 0]

VARIABLES
  pc,          \* where main() of 05_scrape_demo.py is
  out,         \* its dict out
  calls,       \* the extractors invoked so far, in order
  raised,      \* the sites whose extractor raised to main()
  fetchLog,    \* the calls of fetch so far: site, url, ok
  tierLog,     \* the tiers run so far: site, tier, what the tier yielded
  wpos,        \* number of tokens of json.dump already in the file
  scrapeFile,  \* artifacts/reports/scraped_excerpt.json
  prior,       \* what that file was when the run began
  cleanCsv,    \* artifacts/clean_superstore.csv exists
  edaJson,     \* artifacts/reports/eda_summary.json exists
  allJson,     \* artifacts/reports/all_reports.json exists
  resp,        \* the response of the HTTP handler that ran in the last step
  csv,         \* what artifacts/clean_superstore.csv holds when it exists
  rpc,         \* where main() of 06_parallel_reports.py is
  work,        \* the three tasks given to the pool: state and result
  collected,   \* how many results run_parallel has merged
  merged,      \* the dict out of run_parallel / run_sequential
  fellBack,    \* why run_sequential was called: "none", "pool", "worker"
  reportsFile, \* artifacts/reports/all_reports.json
  xpc,         \* an extractor applied to one page: "page", "done" ("off": none)
  xpage,       \* that page: the site, its JSON-LD blocks, its cards
  xres         \* what the extractor made of it

exVars == <<xpc, xpage, xres>>
repVars == <<csv, rpc, work, collected, merged, fellBack, reportsFile, exVars>>
vars == <<pc, out, calls, raised, fetchLog, tierLog, wpos, scrapeFile, prior, cleanCsv, edaJson, allJson,
          resp, repVars>>
apiVars == <<prior, cleanCsv, edaJson, allJson, repVars>>
runVars == <<pc, out, calls, raised, fetchLog, tierLog, wpos, scrapeFile, prior>>

NoResp == [endpoint |-> "none", status |-> 0, read |-> FALSE, seen |-> <<>>,
           notes |-> {}, counts |-> <<>>]

\* No extractor is applied to a page on its own.
NoPage == [site |-> "none", blocks |-> <<>>, cards |-> <<>>]
NoRes == [ld |-> <<>>, items |-> <<>>, result |-> Ok(<<>>)]
ExOff == xpc = "off" /\ xpage = NoPage /\ xres = NoRes

\* 06_parallel_reports.py has not run: the CSV content and the reports file.
RepInit(c, f) ==
  /\ csv = c
  /\ rpc = "idle"
  /\ work = [w \in TaskSet |-> NotSubmitted]
  /\ collected = 0
  /\ merged = <<>>
  /\ fellBack = "none"
  /\ reportsFile = f

\* The file a previous run left: City Center and Readers data, Time Center failed.
PriorOut ==
  DictSet(StoreError(DictSet(<<>>, "citycenter", ParseCity(Cyc(CityPool, 3)).value),
                     "timecenter", Raise("HTTPError", "fetch failed")),
          "readers", ParseReadersPrimary([blocks |-> <<>>, cards |-> Cyc(ReadersPool, 3)]).value)
PriorFile == [exists |-> TRUE, tokens |-> Dump(PriorOut)]

Init ==
  /\ pc = "idle"
  /\ out = <<>>
  /\ calls = <<>>
  /\ raised = {}
  /\ fetchLog = <<>>
  /\ tierLog = <<>>
  /\ wpos = 0
  /\ scrapeFile \in {Absent, PriorFile}
  /\ prior = scrapeFile
  /\ cleanCsv = FALSE
  /\ edaJson = FALSE
  /\ allJson = FALSE
  /\ resp = NoResp
  /\ RepInit(CsvPool[1], Absent)
  /\ ExOff

Logged(site, url, f) == Append(fetchLog, [site |-> site, url |-> url, ok |-> f.ok])

\* A tier has run: yield is the number of items it collected, -1 when it
\* raised; titled is the number of titled products among the first 8 entries
\* of a products.json body (0 for any other tier).
Tiered(site, tier, titled, yield) ==
  Append(tierLog, [site |-> site, tier |-> tier, titled |-> titled, yield |-> yield])
\* The items of an outcome that holds a list of items.
YieldOf(r) == IF r.ok THEN Len(r.value) ELSE 0 - 1
\* The titled products among products[:8] of a fetched body.
TitledProducts(f) ==
  IF f.ok /\ f.value.kind = "dict"
    THEN Cardinality({i \in 1..Min(PreviewCap, Len(f.value.products)) :
                        f.value.products[i].isdict /\ Truthy(f.value.products[i].title)})
    ELSE 0

\* Mutant of Finish: the try block encloses the loop, so an error ends it.
FinishAbort(name, outcome) ==
  /\ raised' = IF outcome.ok THEN raised ELSE raised \cup {name}
  /\ IF outcome.ok
       THEN out' = DictSet(out, name, outcome.value) /\ pc' = NextSite(name)
       ELSE out' = StoreError(out, name, outcome) /\ pc' = "open"

\* try: out[name] = fn() / except Exception (lines 193-200), then the next step.
Finish(name, outcome) ==
  /\ raised' = IF outcome.ok THEN raised ELSE raised \cup {name}
  /\ IF outcome.ok
       THEN out' = DictSet(out, name, outcome.value) /\ pc' = NextSite(name)
     ELSE IF Caught(outcome.etype)
       THEN out' = StoreError(out, name, outcome) /\ pc' = NextSite(name)
     ELSE out' = out /\ pc' = "crashed"

\* Mutant of NextTier: the extractor tries the same tier again.
NextTierRetry(tier) == pc' = pc /\ out' = out /\ raised' = raised

\* The extractor goes on to its next tier: main() sees nothing yet.
NextTier(tier) == pc' = tier /\ out' = out /\ raised' = raised

\* os.makedirs(..., exist_ok=True); out = {} (lines 183-184).
Start ==
  /\ pc = "idle"
  /\ \/ pc' = Steps[1]
     \/ pc' = "crashed"       \* makedirs raises OSError
  /\ out' = <<>>
  /\ resp' = NoResp
  /\ UNCHANGED <<calls, raised, fetchLog, tierLog, wpos, scrapeFile, apiVars>>

\* parse_citycenter_laptops (lines 33-55).
StepCity ==
  /\ pc = "citycenter"
  /\ calls' = Append(calls, "citycenter")
  /\ \E f \in FetchResults(CityDocs) :
       /\ fetchLog' = Logged("citycenter", CITY_URL, f)
       /\ tierLog' = Tiered("citycenter", "html", 0,
                            IF f.ok THEN Len(CityLoop(f.value, <<>>)) ELSE 0 - 1)
       /\ Finish("citycenter", IF f.ok THEN ParseCity(f.value) ELSE f)
  /\ resp' = NoResp
  /\ UNCHANGED <<wpos, scrapeFile, apiVars>>

\* Mutant of TimeJsonSwallows: the JSON tier has no except clause.
TimeJsonSwallowsNothing(etype) == FALSE

\* except Exception: pass (lines 76-77).
TimeJsonSwallows(etype) == TRUE

\* parse_timecenter_shopify, the JSON tier (lines 59-77).
StepTimeJson ==
  /\ pc = "timecenter"
  /\ calls' = Append(calls, "timecenter")
  /\ \E f \in FetchResults(TimeJsonBodies) :
       /\ fetchLog' = Logged("timecenter", ProdJsonUrl, f)
       /\ LET tier == IF f.ok THEN TimeJsonItems(f.value) ELSE f
          IN tierLog' = Tiered("timecenter", "json", TitledProducts(f), YieldOf(tier))
       /\ LET tier == IF f.ok THEN TimeJsonItems(f.value) ELSE f
          IN IF tier.ok /\ tier.value # <<>>
               THEN Finish("timecenter",
                           Ok([source |-> ProdJsonSource, items_count |-> Len(tier.value),
                               items_preview |-> tier.value]))
             ELSE IF tier.ok \/ TimeJsonSwallows(tier.etype)
               THEN NextTier("timecenter_html")
             ELSE Finish("timecenter", tier)
  /\ resp' = NoResp
  /\ UNCHANGED <<wpos, scrapeFile, apiVars>>

\* parse_timecenter_shopify, the HTML tier (lines 79-99).
StepTimeHtml ==
  /\ pc = "timecenter_html"
  /\ \E f \in FetchResults(TimeHtmlDocs) :
       /\ fetchLog' = Logged("timecenter", TIME_URL, f)
       /\ tierLog' = Tiered("timecenter", "html", 0,
                            IF f.ok THEN Len(TimeHtmlLoop(f.value, <<>>)) ELSE 0 - 1)
       /\ Finish("timecenter", IF f.ok THEN ParseTimeHtml(f.value) ELSE f)
  /\ resp' = NoResp
  /\ UNCHANGED <<calls, wpos, scrapeFile, apiVars>>

\* Mutant of ReadersFallsBack: a failed fetch of the page falls back as well.
ReadersAlwaysFallsBack(f, r) == ~r.ok

\* if not items (line 170), reached when the primary page was fetched.
ReadersFallsBack(f, r) == f.ok /\ ~r.ok

\* parse_readers, the primary page (lines 163-170, 180).
StepReaders ==
  /\ pc = "readers"
  /\ calls' = Append(calls, "readers")
  /\ \E f \in FetchResults(ReadersPrimaryDocs) :
       /\ fetchLog' = Logged("readers", READERS_URL, f)
       /\ tierLog' = Tiered("readers", "primary", 0,
                            IF f.ok THEN Len(ReadersExtractFromDoc(f.value, READERS_URL))
                            ELSE 0 - 1)
       /\ LET r == IF f.ok THEN ParseReadersPrimary(f.value) ELSE f
          IN IF ReadersFallsBack(f, r)
               THEN NextTier("readers_search")
               ELSE Finish("readers", r)
  /\ resp' = NoResp
  /\ UNCHANGED <<wpos, scrapeFile, apiVars>>

\* parse_readers, the search fallback (lines 171-178).
StepReadersSearch ==
  /\ pc = "readers_search"
  /\ \E f \in FetchResults(ReadersSearchDocs) :
       /\ fetchLog' = Logged("readers", SearchUrl, f)
       /\ tierLog' = Tiered("readers", "search", 0,
                            IF f.ok THEN Len(ReadersExtractFromDoc(f.value, SearchUrl))
                            ELSE 0 - 1)
       /\ Finish("readers", IF f.ok THEN ParseReadersSearch(f.value) ELSE f)
  /\ resp' = NoResp
  /\ UNCHANGED <<calls, wpos, scrapeFile, apiVars>>

\* with open(OUT_JSON, "w", encoding="utf-8") as f (line 202).
OpenOut ==
  /\ pc = "open"
  /\ scrapeFile' = OpenW(scrapeFile)
  /\ wpos' = 0
  /\ pc' = "write"
  /\ resp' = NoResp
  /\ UNCHANGED <<out, calls, raised, fetchLog, tierLog, apiVars>>

\* json.dump(out, f, ...) (line 203): the next token reaches the file.
WriteChunk ==
  /\ pc = "write"
  /\ wpos < Len(Dump(out))
  /\ scrapeFile' = [scrapeFile EXCEPT !.tokens = Append(@, Dump(out)[wpos + 1])]
  /\ wpos' = wpos + 1
  /\ resp' = NoResp
  /\ UNCHANGED <<pc, out, calls, raised, fetchLog, tierLog, apiVars>>

\* The with block ends and main returns (lines 203-204).
CloseOut ==
  /\ pc = "write"
  /\ wpos = Len(Dump(out))
  /\ pc' = "done"
  /\ resp' = NoResp
  /\ UNCHANGED <<out, calls, raised, fetchLog, tierLog, wpos, scrapeFile, apiVars>>

\* main() of 05_scrape_demo.py (lines 182-204).
MainStep ==
  \/ Start
  \/ StepCity
  \/ StepTimeJson
  \/ StepTimeHtml
  \/ StepReaders
  \/ StepReadersSearch
  \/ OpenOut
  \/ WriteChunk
  \/ CloseOut


\* ------------------------------------------------------ the other scripts
\* 01_load_clean.py: main() writes clean_superstore.csv, or raises
\* FileNotFoundError when the raw CSV is missing (lines 44-45, 76).
RunLoadClean ==
  /\ \E rawPresent \in BOOLEAN : cleanCsv' = (cleanCsv \/ rawPresent)
  /\ resp' = NoResp
  /\ UNCHANGED <<runVars, edaJson, allJson, repVars>>

\* 02_eda_kpis.py: main() raises without the clean CSV (lines 21-22), else
\* writes eda_summary.json (lines 56-57).
RunEdaKpis ==
  /\ edaJson' = (edaJson \/ cleanCsv)
  /\ resp' = NoResp
  /\ UNCHANGED <<runVars, cleanCsv, allJson, repVars>>

\* 06_parallel_reports.py: main() raises without the clean CSV (lines 48-49),
\* else writes all_reports.json (lines 58-59).
RunParallelReports ==
  /\ allJson' = (allJson \/ cleanCsv)
  /\ resp' = NoResp
  /\ UNCHANGED <<runVars, cleanCsv, edaJson, repVars>>

PipelineStep == RunLoadClean \/ RunEdaKpis \/ RunParallelReports

\* ----------------------------------- 06_parallel_reports.py, step by step
\* What the steps of that script leave as it is.
notReports == <<pc, out, calls, raised, fetchLog, tierLog, wpos, scrapeFile, prior, cleanCsv, edaJson,
               resp, exVars>>

\* main() up to the submission of the tasks (lines 46-53, 26-30): without the
\* clean CSV it raises; mp.Pool may fail to start, which main() catches.
ReportsStart ==
  /\ rpc = "idle"
  /\ IF ~cleanCsv
       THEN rpc' = "crashed" /\ UNCHANGED <<work, fellBack>>
       ELSE \/ rpc' = "get" /\ work' = [w \in TaskSet |-> Running] /\ UNCHANGED fellBack
            \/ rpc' = "sequential" /\ fellBack' = "pool" /\ UNCHANGED work
  /\ UNCHANGED <<csv, collected, merged, reportsFile, allJson, notReports>>

\* A worker process ends its task: the report of the file, or its exception.
WorkerReturns ==
  /\ rpc = "get"
  /\ \E w \in TaskSet :
       /\ work[w].state = "running"
       /\ work' = [work EXCEPT ![w] =
                     Returned(ReportOf(w, csv),
                              Cardinality({v \in TaskSet : work[v].state = "done"}) + 1)]
  /\ UNCHANGED <<csv, rpc, collected, merged, fellBack, reportsFile, allJson, notReports>>

\* Mutant of AfterGet: run_parallel returns after the first result.
AfterFirstGet(n) == "write"

\* After the n-th out.update(r.get()): the next get, or the return to main().
AfterGet(n) == IF n < Len(Tasks) THEN "get" ELSE "write"

\* out.update(rN.get()) (lines 33-35): get waits for the task; the exception
\* of a task leaves run_parallel, the pool is terminated, main() falls back.
Collect ==
  /\ rpc = "get"
  /\ collected < Len(Tasks)
  /\ LET t == work[Tasks[collected + 1]]
     IN /\ t.state = "done"
        /\ IF t.result.ok
             THEN /\ merged' = DictUpdate(merged, t.result.value)
                  /\ collected' = collected + 1
                  /\ rpc' = AfterGet(collected + 1)
                  /\ UNCHANGED <<work, fellBack>>
             ELSE /\ rpc' = "sequential"
                  /\ fellBack' = "worker"
                  /\ work' = [w \in TaskSet |->
                                IF work[w].state = "running" THEN Terminated ELSE work[w]]
                  /\ UNCHANGED <<merged, collected>>
  /\ UNCHANGED <<csv, reportsFile, allJson, notReports>>

\* out = run_sequential() (line 56); its exception leaves main().
SequentialStep ==
  /\ rpc = "sequential"
  /\ LET r == RunSequential(csv)
     IN IF r.ok THEN merged' = r.value /\ rpc' = "write"
        ELSE merged' = merged /\ rpc' = "crashed"
  /\ UNCHANGED <<csv, work, collected, fellBack, reportsFile, allJson, notReports>>

\* with open(OUT_JSON, "w") ...: json.dump(out, f, ...) (lines 58-59).
WriteReports ==
  /\ rpc = "write"
  /\ reportsFile' = [exists |-> TRUE, tokens |-> Dump(merged)]
  /\ allJson' = TRUE
  /\ rpc' = "done"
  /\ UNCHANGED <<csv, work, collected, merged, fellBack, notReports>>

ReportsStep == ReportsStart \/ WorkerReturns \/ Collect \/ SequentialStep \/ WriteReports

\* ------------------------------------------------------------ HTTP API
ZeroCounts == [s \in Sites |-> 0]
Resp(endpoint, status, read, seen, notes, counts) ==
  [endpoint |-> endpoint, status |-> status, read |-> read, seen |-> seen,
   notes |-> notes, counts |-> counts]
Plain(endpoint, status) == Resp(endpoint, status, FALSE, <<>>, {}, ZeroCounts)

\* What a handler leaves as it is: everything but the response.
served == <<runVars, cleanCsv, edaJson, allJson, repVars>>

\* The status FastAPI answers with: the handler's own, that of an
\* HTTPException, 500 for any other exception that leaves the handler.
StatusOf(outcome) ==
  IF outcome.ok THEN 200
  ELSE IF outcome.etype = "HTTPException" THEN outcome.msg
  ELSE 500

\* root_redirect (lines 24-27): RedirectResponse answers 307.
RootRedirect ==
  /\ resp' = Plain("/", 307)
  /\ UNCHANGED served

\* favicon (lines 29-32).
Favicon ==
  /\ resp' = Plain("/favicon.ico", 204)
  /\ UNCHANGED served

\* load_df (lines 18-21).
LoadDf ==
  IF ~cleanCsv
    THEN Raise("FileNotFoundError", "Run 01_load_clean.py first")
    ELSE Ok("df")

\* get_summary (lines 35-41).
GetSummary ==
  /\ resp' = Plain("/summary",
                   StatusOf(IF ~edaJson THEN Raise("HTTPException", 404) ELSE Ok("summary")))
  /\ UNCHANGED served

\* Query(10, ge=1, le=1000): values a client sends for n.
QueryN == {0, 10}

\* top_losses (lines 43-48); the query parameter is validated first.
TopLosses ==
  /\ \E n \in QueryN :
       resp' = Plain("/top-losses",
                     IF n < 1 \/ n > 1000 THEN 422
                     ELSE IF ~LoadDf.ok THEN StatusOf(LoadDf)
                     ELSE 200)
  /\ UNCHANGED served

\* summary_html (lines 61-73).
SummaryHtml ==
  /\ resp' = Resp("/summary_html", 200, FALSE, <<>>,
                  IF ~edaJson THEN {"run 02_eda_kpis.py"} ELSE {}, ZeroCounts)
  /\ UNCHANGED served

\* top_losses_html (lines 75-91).
TopLossesHtml ==
  /\ \E n \in QueryN :
       resp' = Plain("/top-losses-html",
                     IF n < 1 \/ n > 1000 THEN 422
                     ELSE IF ~LoadDf.ok THEN StatusOf(LoadDf)
                     ELSE 200)
  /\ UNCHANGED served

\* The categories of the clean CSV, lower-cased, and names a client asks for.
CsvCategories == {"furniture", "office supplies", "technology"}
QueryNames == {"Furniture", "toys"}
\* str.lower() on those names.
Lower(name) == IF name = "Furniture" THEN "furniture" ELSE name

\* category_stats (lines 50-58).
CategoryStats ==
  /\ \E name \in QueryNames :
       resp' = Plain("/category/{name}",
                     IF ~LoadDf.ok THEN StatusOf(LoadDf)
                     ELSE IF Lower(name) \notin CsvCategories
                       THEN StatusOf(Raise("HTTPException", 404))
                     ELSE 200)
  /\ UNCHANGED served

\* (block or {}).get("items_count", default) for block = data.get(site).
ItemsCount(data, site) == IF Has(data, site) THEN Get(data, site).items_count ELSE 0
CountsOf(data) == [s \in Sites |-> ItemsCount(data, s)]

\* get_scrape (lines 94-100).
GetScrape ==
  /\ resp' = IF ~scrapeFile.exists
               THEN Plain("/scrape", StatusOf(Raise("HTTPException", 404)))
               ELSE Resp("/scrape", StatusOf(JsonLoad(scrapeFile)), TRUE, scrapeFile.tokens,
                         {}, ZeroCounts)
  /\ UNCHANGED served

\* scrape_html (lines 102-136).
ScrapeHtml ==
  /\ resp' = IF ~scrapeFile.exists
               THEN Resp("/scrape_html", 200, FALSE, <<>>, {"run 05_scrape_demo.py"}, ZeroCounts)
               ELSE LET data == JsonLoad(scrapeFile)
                    IN Resp("/scrape_html", StatusOf(data), TRUE, scrapeFile.tokens, {},
                            IF data.ok THEN CountsOf(data.value) ELSE ZeroCounts)
  /\ UNCHANGED served

\* The three loads of dashboard (lines 141-153): a missing file leaves {}.
DashSummary ==
  IF edaJson THEN Ok(<<[key |-> "top_category_by_profit", val |-> "Technology"]>>)
  ELSE Ok(<<>>)
DashReports == IF allJson THEN Ok(<<[key |-> "top_losses", val |-> <<>>]>>) ELSE Ok(<<>>)
\* Mutant of DashScrape: the file is loaded without the os.path.exists test.
DashScrapeUnguarded == JsonLoad(scrapeFile)
DashScrape == IF scrapeFile.exists THEN JsonLoad(scrapeFile) ELSE Ok(<<>>)

\* The notes of dashboard (lines 183-190).
DashNotes(summary, reports, scrape) ==
  (IF summary = <<>> THEN {"run 02_eda_kpis.py"} ELSE {})
    \cup (IF reports = <<>> THEN {"run 06_parallel_reports.py"} ELSE {})
    \cup (IF scrape = <<>> THEN {"run 05_scrape_demo.py"} ELSE {})

\* dashboard (lines 139-263).
Dashboard ==
  /\ resp' = LET scrape == DashScrape
             IN IF ~scrape.ok
                  THEN Resp("/dashboard", StatusOf(scrape), TRUE, scrapeFile.tokens, {}, ZeroCounts)
                  ELSE Resp("/dashboard", 200, scrapeFile.exists, scrapeFile.tokens,
                            DashNotes(DashSummary.value, DashReports.value, scrape.value),
                            CountsOf(scrape.value))
  /\ UNCHANGED served

\* The handlers that read scraped_excerpt.json.
ReaderStep == GetScrape \/ ScrapeHtml \/ Dashboard

ApiStep ==
  \/ RootRedirect
  \/ Favicon
  \/ GetSummary
  \/ TopLosses
  \/ CategoryStats
  \/ SummaryHtml
  \/ TopLossesHtml
  \/ ReaderStep

\* A run of the scraper while the API serves its output file.  main() is
\* sequential code whose fetches time out, so its steps always come to run.
Next == MainStep \/ ReaderStep
Spec == Init /\ [][Next]_vars /\ WF_vars(MainStep)

\* The API over the artifacts the other scripts leave, no scraper running.
NextApi == PipelineStep \/ ApiStep
SpecApi == Init /\ [][NextApi]_vars

\* A run of 06_parallel_reports.py over each clean CSV, present or not, and
\* each earlier state of all_reports.json.
InitReports ==
  /\ pc = "idle"
  /\ out = <<>>
  /\ calls = <<>>
  /\ raised = {}
  /\ fetchLog = <<>>
  /\ tierLog = <<>>
  /\ wpos = 0
  /\ scrapeFile = Absent
  /\ prior = scrapeFile
  /\ cleanCsv \in BOOLEAN
  /\ edaJson = FALSE
  /\ resp = NoResp
  /\ \E i \in 1..Len(CsvPool), f \in {Absent, PriorReports} :
       RepInit(CsvPool[i], f) /\ allJson = f.exists
  /\ ExOff
SpecReports == InitReports /\ [][ReportsStep]_vars

\* ------------------------------------------- the extractors, page by page
\* The text a card's title selectors give, marked with the card's position.
Marks == <<"#1", "#2", "#3", "#4", "#5", "#6", "#7", "#8", "#9", "#10", "#11", "#12", "#13",
           "#14", "#15", "#16">>
Marked(v, i) == IF v.t = "str" /\ v.s # <<>> THEN Str(v.s \o <<Marks[i]>>) ELSE v
\* The cards of a page, each title marked with the card's position.
Numbered(cards) ==
  [i \in 1..Len(cards) |->
     [cards[i] EXCEPT !.title = [k \in 1..Len(cards[i].title) |-> Marked(cards[i].title[k], i)]]]
\* The pool of cards from its k-th card on.
Rot(pool, k) == [i \in 1..Len(pool) |-> pool[((i + k - 1) % Len(pool)) + 1]]

\* JSON-LD script blocks: one that does not parse, a Product, ItemLists short
\* and long, a list of nodes, a JSON string.
LdBlocks ==
  { Malformed,
    [kind |-> "dict", data |-> ReadersNodes[1].item],
    [kind |-> "dict", data |-> ItemList(Cyc(ReadersNodes, 3))],
    [kind |-> "dict", data |-> ItemList(Cyc(ReadersNodes, MaxCards))],
    [kind |-> "list", data |-> <<Product(Str(<<"Book", " ", "E">>), Str(<<"3.00">>), None), None,
                                 ItemList(Cyc(ReadersNodes, 2))>>],
    [kind |-> "scalar", data |-> <<>>] }
LdBlockSeqs ==
  {<<>>} \cup {<<a>> : a \in LdBlocks} \cup {<<a, b>> : a \in LdBlocks, b \in LdBlocks}
    \cup {<<a, Malformed, b>> : a \in LdBlocks, b \in LdBlocks}

CityPages ==
  {[site |-> "citycenter", blocks |-> <<>>, cards |-> Numbered(Cyc(Rot(CityPool, k), n))]
     : k \in 0..(Len(CityPool) - 1), n \in 0..MaxCards}
ReadersPages ==
  {[site |-> "readers", blocks |-> b, cards |-> Numbered(Cyc(ReadersPool, n))]
     : b \in LdBlockSeqs, n \in CardCounts}

InitExtract ==
  /\ pc = "idle"
  /\ out = <<>>
  /\ calls = <<>>
  /\ raised = {}
  /\ fetchLog = <<>>
  /\ tierLog = <<>>
  /\ wpos = 0
  /\ scrapeFile = Absent
  /\ prior = scrapeFile
  /\ cleanCsv = FALSE
  /\ edaJson = FALSE
  /\ allJson = FALSE
  /\ resp = NoResp
  /\ csv = CsvPool[1]
  /\ rpc = "idle"
  /\ work = [w \in TaskSet |-> NotSubmitted]
  /\ collected = 0
  /\ merged = <<>>
  /\ fellBack = "none"
  /\ reportsFile = Absent
  /\ xpc = "page"
  /\ xpage \in CityPages \cup ReadersPages
  /\ xres = NoRes

notExtract == <<pc, out, calls, raised, fetchLog, tierLog, wpos, scrapeFile, prior, cleanCsv,
                edaJson, allJson, resp, csv, rpc, work, collected, merged, fellBack, reportsFile>>

\* parse_citycenter_laptops on the fetched page (lines 35-55).
ExtractCity ==
  /\ xpc = "page" /\ xpage.site = "citycenter"
  /\ xres' = [ld |-> <<>>, items |-> CityLoop(xpage.cards, <<>>), result |-> ParseCity(xpage.cards)]
  /\ xpc' = "done"
  /\ UNCHANGED <<xpage, notExtract>>

\* _readers_extract_from_doc(doc, READERS_URL) (lines 102-161).
ExtractReaders ==
  /\ xpc = "page" /\ xpage.site = "readers"
  /\ xres' = [ld     |-> PushBlocks(<<>>, xpage.blocks, READERS_URL),
              items  |-> ReadersExtractFromDoc(xpage, READERS_URL),
              result |-> ParseReadersPrimary(xpage)]
  /\ xpc' = "done"
  /\ UNCHANGED <<xpage, notExtract>>

NextExtract == ExtractCity \/ ExtractReaders
SpecExtract == InitExtract /\ [][NextExtract]_vars

\* ================================================================ claims
LoopDone == pc \in {"open", "write", "done"}
AllKeys == Sites \cup {ErrorKey(s) : s \in Sites} \cup {TraceKey(s) : s \in Sites}
DataVariant(d, s) == Has(d, s) /\ ~Has(d, ErrorKey(s)) /\ ~Has(d, TraceKey(s))
ErrorVariant(d, s) == ~Has(d, s) /\ Has(d, ErrorKey(s)) /\ Has(d, TraceKey(s))
IsPrefix(a, b) == Len(a) <= Len(b) /\ SubSeq(b, 1, Len(a)) = a
Written == pc = "done" /\ scrapeFile = [exists |-> TRUE, tokens |-> Dump(out)]

\* C1: once main() has finished its loop over the three sites, out holds for
\* every site exactly one variant: the data key alone when the extractor
\* returned, the _error and _trace keys alone when it raised.  So out has 3 to
\* 6 keys, and six error keys and no data key when all three raised.
C1_OneEntryPerSite ==
  LoopDone =>
    /\ \A s \in Sites : IF s \in raised THEN ErrorVariant(out, s) ELSE DataVariant(out, s)
    /\ Keys(out) \subseteq AllKeys
    /\ Cardinality(Keys(out)) = Len(out)
    /\ Len(out) \in 3..6
    /\ (raised = Sites => Len(out) = 6 /\ Keys(out) \cap Sites = {})

\* All three extractors raised and the run came to its end.
C1_AllRaised == pc = "done" /\ raised = Sites /\ Len(out) = 6

\* No step of the run removes or changes an entry out already holds.
EntriesKept == \A k \in Keys(out) : Has(out', k) /\ Get(out', k) = Get(out, k)

\* C2: whatever each extractor does (return or raise), the extractors are
\* invoked once each in the order citycenter, timecenter, readers: an
\* exception of one never keeps a later one from being invoked, and never
\* changes the entry stored for an earlier site.
C2_FailureIsolation ==
  /\ [](IsPrefix(calls, Steps) /\ (LoopDone => calls = Steps))
  /\ [][EntriesKept]_vars

\* The first extractor raised, the last one was invoked and returned.
C2_LaterSiteAfterFailure ==
  LoopDone /\ "citycenter" \in raised /\ calls = Steps /\ Has(out, "readers")

\* C3: a run whose output directory could be created does not raise and
\* comes to its end with scraped_excerpt.json written, whatever the fetches
\* and the extractions do.
C3_AlwaysWritten ==
  /\ [](pc = "crashed" => calls = <<>>)
  /\ (pc = Steps[1]) ~> Written

\* The file is written although every site failed, one of them on its fetch.
C3_WrittenDespiteErrors ==
  Written /\ raised = Sites /\ \E i \in 1..Len(fetchLog) : ~fetchLog[i].ok

\* C4: every data entry has items_count = len(items_preview) and at most 8
\* items in items_preview.
C4_CountMatchesPreview ==
  \A i \in 1..Len(out) :
    out[i].key \in Sites =>
      /\ out[i].val.items_count = Len(out[i].val.items_preview)
      /\ Len(out[i].val.items_preview) <= PreviewCap

\* C5: every stored item has a non-empty string as title, and a href that is
\* empty or absolute.
C5_TitlesAndLinks ==
  \A i \in 1..Len(out) :
    out[i].key \in Sites =>
      \A j \in 1..Len(out[i].val.items_preview) :
        LET it == out[i].val.items_preview[j]
        IN /\ it.title.t = "str" /\ it.title.s # <<>>
           /\ (it.href = EmptyUrl \/ IsAbsolute(it.href))

\* No fetch for the site of fetch i follows it.
LastOfSite(i) == \A j \in (i + 1)..Len(fetchLog) : fetchLog[j].site # fetchLog[i].site
\* The site's extractor raised and main() stored the error entry.
EndedInError(s) == s \in raised /\ Has(out, ErrorKey(s))

\* C6 as claimed: a fetch that raises is the last fetch of its site, and the
\* site's extractor raises, so that the site ends with an _error entry.
C6_FetchFailureFatal ==
  \A i \in 1..Len(fetchLog) :
    ~fetchLog[i].ok => LastOfSite(i) /\ EndedInError(fetchLog[i].site)

\* C6 as amended: that holds of every fetch but the one of the Time Center
\* JSON tier.  When the fetch of products.json raises, the error is swallowed
\* and the collection page is fetched, once, as the only further fetch of the
\* site.  No URL is fetched twice.
C6_FetchFailureFatalButJsonTier ==
  /\ \A i \in 1..Len(fetchLog) :
       ~fetchLog[i].ok =>
         IF fetchLog[i].url = ProdJsonUrl
           THEN /\ \A j \in (i + 1)..Len(fetchLog) :
                     fetchLog[j].site = fetchLog[i].site => j = i + 1 /\ fetchLog[j].url = TIME_URL
                /\ (pc = "timecenter_html" \/ (Len(fetchLog) > i /\ fetchLog[i + 1].url = TIME_URL))
           ELSE LastOfSite(i) /\ EndedInError(fetchLog[i].site)
  /\ \A i, j \in 1..Len(fetchLog) : fetchLog[i].url = fetchLog[j].url => i = j

\* The JSON tier's fetch failed, the HTML tier's fetch failed too, and that
\* one was fatal.
C6_BothTiersFailed ==
  /\ EndedInError("timecenter")
  /\ \E i \in 1..Len(fetchLog) : fetchLog[i].url = ProdJsonUrl /\ ~fetchLog[i].ok
  /\ \E i \in 1..Len(fetchLog) : fetchLog[i].url = TIME_URL /\ ~fetchLog[i].ok

\* C7: after a run, loading scraped_excerpt.json gives the mapping main()
\* assembled, key for key and value for value, whatever the file held before.
C7_RoundTrip ==
  pc = "done" =>
    LET r == JsonLoad(scrapeFile)
    IN r.ok /\ Keys(r.value) = Keys(out) /\ r.value = out

\* The file of the previous run held City Center data; this run stored the
\* City Center error, and the file no longer has the data key.
C7_PriorKeyGone ==
  /\ pc = "done"
  /\ prior.exists /\ Has(JsonLoad(prior).value, "citycenter")
  /\ Has(out, "citycenter_error")
  /\ ~Has(JsonLoad(scrapeFile).value, "citycenter")

\* C8 as claimed: a handler that reads scraped_excerpt.json sees the whole
\* previous content or the whole new content.
C8_ReaderSeesWhole ==
  resp.read =>
    \/ prior.exists /\ resp.seen = prior.tokens
    \/ pc \in {"write", "done"} /\ resp.seen = Dump(out)

\* C8 as amended: the write is not atomic.  Before main() opens the file a
\* reader sees the previous content; from then on it sees what json.dump has
\* written so far, a prefix of the new document that is empty at first and
\* whole once the write has ended; the handler answers 200 when what it read
\* is a whole document and 500 when it is not.
C8_ReaderSeesPriorOrPrefix ==
  resp.read =>
    /\ IF pc \in {"write", "done"}
         THEN resp.seen = SubSeq(Dump(out), 1, wpos)
         ELSE prior.exists /\ resp.seen = prior.tokens
    /\ (pc = "done" => resp.seen = Dump(out))
    /\ resp.status = (IF IsDocument(resp.seen) THEN 200 ELSE 500)

\* A handler read the file in the middle of the write and answered 500.
C8_TornRead ==
  /\ resp.read /\ resp.status = 500
  /\ pc = "write" /\ 0 < wpos /\ wpos < Len(Dump(out))

\* C9: /dashboard answers 200 whichever of eda_summary.json, all_reports.json
\* and scraped_excerpt.json are absent; without scraped_excerpt.json the page
\* (and /scrape_html) carries the "run 05_scrape_demo.py" notice; a site
\* without data key in the file is shown with 0 items.
C9_DashboardWithoutArtifacts ==
  /\ resp.endpoint = "/dashboard" =>
       /\ resp.status = 200
       /\ (~scrapeFile.exists => "run 05_scrape_demo.py" \in resp.notes)
       /\ (~edaJson => "run 02_eda_kpis.py" \in resp.notes)
       /\ (~allJson => "run 06_parallel_reports.py" \in resp.notes)
       /\ \A s \in Sites :
            (~scrapeFile.exists \/ ~Has(JsonLoad(scrapeFile).value, s)) => resp.counts[s] = 0
  /\ (resp.endpoint = "/scrape_html" /\ ~scrapeFile.exists) =>
       resp.status = 200 /\ "run 05_scrape_demo.py" \in resp.notes

\* /dashboard answered while only all_reports.json had been produced.
C9_OnlyReportsPresent ==
  /\ resp.endpoint = "/dashboard" /\ resp.status = 200
  /\ ~scrapeFile.exists /\ ~edaJson /\ allJson
  /\ resp.notes = {"run 02_eda_kpis.py", "run 05_scrape_demo.py"}

\* C10: a JSON endpoint whose artifact is missing answers 404.
C10_MissingArtifactIs404 ==
  /\ (resp.endpoint = "/summary" /\ ~edaJson) => resp.status = 404
  /\ (resp.endpoint = "/scrape" /\ ~scrapeFile.exists) => resp.status = 404
  /\ (resp.endpoint \in {"/top-losses", "/category/{name}"} /\ ~cleanCsv /\ resp.status # 422)
       => resp.status = 404

\* Two dicts hold the same keys with the same values, in whatever order.
SameMapping(a, b) ==
  /\ Keys(a) = Keys(b)
  /\ Len(a) = Cardinality(Keys(a)) /\ Len(b) = Cardinality(Keys(b))
  /\ \A k \in Keys(a) : Get(a, k) = Get(b, k)
\* Every task has ended with a result.
AllDelivered == \A w \in TaskSet : work[w].state = "done" /\ work[w].result.ok
ReportKeys == {"kpis", "top_losses", "monthly"}

\* What C11 says of each state of a run of 06_parallel_reports.py.
MergedRight ==
  /\ rpc \in {"write", "done"} =>
       /\ Keys(merged) = ReportKeys /\ Len(merged) = 3
       /\ RunSequential(csv).ok /\ SameMapping(merged, RunSequential(csv).value)
       /\ (fellBack = "none" => AllDelivered /\ collected = Len(Tasks))
  /\ rpc = "done" => reportsFile = [exists |-> TRUE, tokens |-> Dump(merged)]
  /\ fellBack = "pool" =>
       /\ rpc \in {"sequential", "write", "done", "crashed"}
       /\ \A w \in TaskSet : work[w] = NotSubmitted
       /\ (rpc \in {"write", "done"} => merged = RunSequential(csv).value)
       /\ (rpc = "done" => JsonLoad(reportsFile) = Ok(RunSequential(csv).value))

\* C11: run_parallel merges and main() writes only after all three workers
\* have delivered; whatever the order in which the workers end, the merged
\* mapping has exactly the keys kpis, top_losses, monthly and is the mapping
\* run_sequential gives on the same file; when the pool fails to start,
\* run_sequential runs and its result is what is written.
C11_MergeAfterAllWorkers ==
  /\ []MergedRight
  /\ [][reportsFile' # reportsFile =>
          rpc = "write" /\ (fellBack = "none" => AllDelivered)]_vars

\* The workers ended in the reverse of the order they were submitted in, and
\* the merged reports of the three orders were written.
C11_ReverseCompletion ==
  /\ rpc = "done" /\ fellBack = "none" /\ csv = CsvPool[1]
  /\ work["report_monthly"].nth = 1 /\ work["report_kpis"].nth = 3
  /\ JsonLoad(reportsFile).ok /\ Keys(JsonLoad(reportsFile).value) = ReportKeys

\* main() has called the extractor of the site.
Invoked(site) == \E i \in 1..Len(calls) : calls[i] = site
\* The fetches of a site, of a URL, and the logged tiers of a site.
FetchesOf(site) == {i \in 1..Len(fetchLog) : fetchLog[i].site = site}
FetchesAt(url) == {i \in 1..Len(fetchLog) : fetchLog[i].url = url}
TiersOf(site, tier) ==
  {i \in 1..Len(tierLog) : tierLog[i].site = site /\ tierLog[i].tier = tier}
TierOf(site, tier) == tierLog[CHOOSE i \in TiersOf(site, tier) : TRUE]
\* The stored result of the site is the one of that source with n items.
StoredFrom(site, source, n) ==
  /\ Has(out, site)
  /\ Get(out, site).source = source
  /\ Get(out, site).items_count = n
\* The JSON tier's result was returned: one fetch, the HTML page never asked for.
JsonResultReturned(n) ==
  /\ Cardinality(FetchesOf("timecenter")) = 1
  /\ FetchesAt(TIME_URL) = {}
  /\ pc # "timecenter_html"
  /\ StoredFrom("timecenter", ProdJsonSource, n)
\* The HTML tier is about to run, or has run once and decided the site's entry.
HtmlTierDecides ==
  \/ pc = "timecenter_html" /\ FetchesAt(TIME_URL) = {} /\ TiersOf("timecenter", "html") = {}
  \/ /\ pc # "timecenter_html"
     /\ Cardinality(FetchesAt(TIME_URL)) = 1
     /\ Cardinality(FetchesOf("timecenter")) = 2
     /\ Cardinality(TiersOf("timecenter", "html")) = 1
     /\ LET h == TierOf("timecenter", "html")
        IN IF h.yield >= 1 THEN StoredFrom("timecenter", TIME_URL, h.yield)
           ELSE EndedInError("timecenter")

\* C12 as claimed: when the body of products.json holds a titled product
\* among its first 8 entries, the JSON result is returned after one fetch and
\* the HTML page is never fetched; when the JSON tier raised or yielded no
\* item, the HTML page is fetched once and decides the result.
C12_TitledProductSkipsHtml ==
  TiersOf("timecenter", "json") # {} =>
    LET j == TierOf("timecenter", "json")
    IN /\ j.titled >= 1 => JsonResultReturned(j.titled)
       /\ j.yield <= 0 => HtmlTierDecides

\* C12 as amended: the JSON result is returned, after one fetch, exactly when
\* the JSON tier ends without raising and has collected an item; a tier that
\* raises, be it on an entry that follows titled products, or that collects
\* nothing is followed by one fetch of the HTML page, whose tier decides.
C12_HtmlTierIffJsonFailsOrEmpty ==
  /\ Cardinality(TiersOf("timecenter", "json")) = (IF Invoked("timecenter") THEN 1 ELSE 0)
  /\ TiersOf("timecenter", "json") # {} =>
       LET j == TierOf("timecenter", "json")
       IN IF j.yield >= 1
            THEN j.titled = j.yield /\ JsonResultReturned(j.yield)
            ELSE HtmlTierDecides
  /\ TiersOf("timecenter", "json") = {} => FetchesOf("timecenter") = {}

\* The body held a titled product and an entry that made the tier raise: the
\* HTML page was fetched and its items are the stored result.
C12_RaisedAfterTitledProduct ==
  /\ TiersOf("timecenter", "json") # {}
  /\ TierOf("timecenter", "json").titled >= 1 /\ TierOf("timecenter", "json").yield = 0 - 1
  /\ Has(out, "timecenter") /\ Get(out, "timecenter").source = TIME_URL

\* The site's stored error is the extractor's own "no items" ValueError.
ZeroItemsError(site) ==
  Has(out, ErrorKey(site)) /\ Get(out, ErrorKey(site)).s[1] = "ValueError"
\* The tier of the site ran, once, and gave no item (at most: it may have raised).
RanWith(site, tier, yields) ==
  Cardinality(TiersOf(site, tier)) = 1 /\ TierOf(site, tier).yield \in yields

\* C13: an extractor's "no items" error is stored only when each of its
\* tiers ran and gave no item (the Time Center JSON tier by collecting nothing
\* or by raising, which is swallowed); and every data entry stored has at
\* least one item.
C13_ZeroItemsErrorOnlyWhenAllEmpty ==
  /\ ZeroItemsError("citycenter") => RanWith("citycenter", "html", {0})
  /\ ZeroItemsError("timecenter") =>
       RanWith("timecenter", "json", {0, 0 - 1}) /\ RanWith("timecenter", "html", {0})
  /\ ZeroItemsError("readers") =>
       RanWith("readers", "primary", {0}) /\ RanWith("readers", "search", {0})
  /\ \A i \in 1..Len(out) :
       out[i].key \in Sites =>
         out[i].val.items_count >= 1 /\ Len(out[i].val.items_preview) >= 1

\* Time Center: products.json held no titled product, the collection page no
\* titled card, and the "no items" error is stored for the site.
C13_TimeBothTiersEmpty ==
  /\ ZeroItemsError("timecenter")
  /\ TierOf("timecenter", "json").yield = 0 /\ TierOf("timecenter", "html").yield = 0
  /\ ~Has(out, "timecenter")

\* The stored Readers result carries a note.
HasNote(site) == "note" \in DOMAIN Get(out, site)

\* C14: the search page is fetched, once, exactly when the primary page was
\* fetched and its extraction gave no item; its URL is
\* https://www.readers.jo/index.php?route=product/search&search=book; the
\* stored result has a note exactly when its items are those of the search
\* page, and its source is then the search URL.
C14_SearchFallback ==
  /\ SearchUrl = [t |-> "url", host |-> "www.readers.jo", rooted |-> TRUE,
                  path |-> <<"index.php">>,
                  query |-> <<"route=product/search&search=", "book">>]
  /\ \A i \in FetchesOf("readers") : fetchLog[i].url \in {READERS_URL, SearchUrl}
  /\ TiersOf("readers", "primary") = {} => FetchesAt(SearchUrl) = {}
  /\ TiersOf("readers", "primary") # {} =>
       LET p == TierOf("readers", "primary")
       IN IF p.yield = 0
            THEN \/ pc = "readers_search" /\ FetchesAt(SearchUrl) = {}
                 \/ /\ pc # "readers_search"
                    /\ Cardinality(FetchesAt(SearchUrl)) = 1
                    /\ RanWith("readers", "search", 0 - 1 .. MaxCards)
                    /\ Has(out, "readers") =>
                         /\ HasNote("readers")
                         /\ StoredFrom("readers", SearchUrl, TierOf("readers", "search").yield)
            ELSE /\ FetchesAt(SearchUrl) = {} /\ pc # "readers_search"
                 /\ TiersOf("readers", "search") = {}
                 /\ Has(out, "readers") =>
                      ~HasNote("readers") /\ StoredFrom("readers", READERS_URL, p.yield)

\* The home page gave nothing, the search page was fetched once and its
\* items are stored with the note.
C14_StoredFromSearch ==
  /\ Has(out, "readers") /\ HasNote("readers")
  /\ Get(out, "readers").source = SearchUrl
  /\ TierOf("readers", "primary").yield = 0
  /\ Cardinality(FetchesAt(SearchUrl)) = 1

\* The cards of a page that have a title, in document order, and the item a
\* card is stored as.
HasTitle(card) == Truthy(PyOr(card.title))
TitledCards(cards) == SelectSeq(cards, HasTitle)
CardItem(card, base) ==
  Item(Clean(PyOr(card.title)), Clean(PyOr(card.price)),
       UrlJoin(base, PyOr(card.href \o <<EmptyUrl>>)))
ReadersDone == xpc = "done" /\ xpage.site = "readers"
CityDone == xpc = "done" /\ xpage.site = "citycenter"

\* C15: _readers_extract_from_doc reads the cards only when the JSON-LD gave
\* fewer than 8 items; it then appends the titled cards in document order
\* after the JSON-LD items until the list holds 8 items.
C15_HtmlTierFillsUpToCap ==
  ReadersDone =>
    LET ld == xres.ld
        t  == TitledCards(xpage.cards)
        k  == IF Len(ld) < PreviewCap THEN Min(PreviewCap - Len(ld), Len(t)) ELSE 0
    IN /\ xres.items = ld \o [i \in 1..k |-> CardItem(t[i], READERS_URL)]
       /\ (Len(ld) >= PreviewCap => xres.items = ld)
       /\ (Len(ld) < PreviewCap => Len(xres.items) <= PreviewCap)

\* The JSON-LD gave some items, the page has more titled cards than fit, and
\* the list was filled up to 8.
C15_FilledFromCards ==
  /\ ReadersDone
  /\ Len(xres.ld) \in 1..(PreviewCap - 1)
  /\ Len(TitledCards(xpage.cards)) > PreviewCap - Len(xres.ld)
  /\ Len(xres.items) = PreviewCap

IsMalformed(block) == block.kind = "malformed"
Parses(block) == ~IsMalformed(block)

\* C16: a JSON-LD block that does not parse is skipped and nothing else: the
\* items of the blocks before it are kept, the blocks after it and the cards
\* are read as if the block were not there, and the extraction does not fail
\* because of it.
C16_MalformedBlockSkipped ==
  ReadersDone =>
    /\ xres.items =
         ReadersExtractFromDoc([xpage EXCEPT !.blocks = SelectSeq(@, Parses)], READERS_URL)
    /\ \A k \in 1..Len(xpage.blocks) :
         IsMalformed(xpage.blocks[k]) =>
           LET before == PushBlocks(<<>>, SubSeq(xpage.blocks, 1, k - 1), READERS_URL)
           IN /\ IsPrefix(before, xres.ld)
              /\ xres.ld = PushBlocks(before, SubSeq(xpage.blocks, k + 1, Len(xpage.blocks)),
                                      READERS_URL)
    /\ xres.result.ok = (xres.items # <<>>)

\* A block that does not parse stands between two blocks with products, and
\* the page has cards: items of both blocks and of the cards were collected.
C16_SkippedBetweenBlocks ==
  /\ ReadersDone
  /\ Len(xpage.blocks) = 3 /\ IsMalformed(xpage.blocks[2])
  /\ PushBlocks(<<>>, <<xpage.blocks[1]>>, READERS_URL) # <<>>
  /\ PushBlocks(<<>>, <<xpage.blocks[3]>>, READERS_URL) # <<>>
  /\ Len(xres.ld) > Len(PushBlocks(<<>>, <<xpage.blocks[1]>>, READERS_URL))
  /\ Len(xres.items) > Len(xres.ld)
  /\ xres.result.ok

\* C17: for a City Center page with n >= 1 titled cards
\* parse_citycenter_laptops returns min(n, 8) items: the first min(n, 8)
\* titled cards in document order, cards without title being skipped.
C17_FirstTitledCards ==
  CityDone =>
    LET t == TitledCards(xpage.cards)
        k == Min(Len(t), PreviewCap)
    IN IF Len(t) >= 1
         THEN /\ xres.result.ok
              /\ xres.result.value.items_count = k
              /\ xres.result.value.items_preview = [i \in 1..k |-> CardItem(t[i], CITY_URL)]
         ELSE ~xres.result.ok

\* The page has more than 8 titled cards, its second card has no title, and
\* 8 items were returned.
C17_CappedWithSkippedCard ==
  /\ CityDone
  /\ Len(TitledCards(xpage.cards)) > PreviewCap
  /\ ~HasTitle(xpage.cards[2])
  /\ xres.result.ok /\ xres.result.value.items_count = PreviewCap

\* The place of a site in steps.
StepIndex(site) == CHOOSE i \in 1..Len(Steps) : Steps[i] = site

\* C18: a run issues at most 5 fetches: one for City Center once its
\* extractor is invoked, at most two for Time Center, at most two for Readers;
\* no URL is fetched twice; the fetches of a site all come before those of
\* the next site in the order citycenter, timecenter, readers.
C18_FetchBudget ==
  /\ Len(fetchLog) <= 5
  /\ Cardinality(FetchesOf("citycenter")) = (IF Invoked("citycenter") THEN 1 ELSE 0)
  /\ Cardinality(FetchesOf("timecenter")) <= 2
  /\ Cardinality(FetchesOf("readers")) <= 2
  /\ \A i \in 1..Len(fetchLog) : fetchLog[i].site \in Sites
  /\ \A i, j \in 1..Len(fetchLog) :
       /\ (fetchLog[i].url = fetchLog[j].url => i = j)
       /\ (i < j => StepIndex(fetchLog[i].site) <= StepIndex(fetchLog[j].site))

\* A run that needed every tier: five fetches, and the file written.
C18_FiveFetches ==
  /\ pc = "done" /\ Len(fetchLog) = 5
  /\ Cardinality(FetchesOf("timecenter")) = 2 /\ Cardinality(FetchesOf("readers")) = 2
====
